---- MODULE Spec2Model ----
(***************************************************************************)
(* deadpool-postgres / deadpool-lapin: the pool managers (create, recycle) *)
(* and the statement cache of the postgres Client and Transaction wrappers.*)
(*                                                                         *)
(* A pooled object is a Client (src/postgres/src/lib.rs:51): one backend   *)
(* connection plus its StatementCache.  Client identifiers double as the   *)
(* identifiers of the backend connection (Resource) the Client wraps,      *)
(* since Client::new is only called with a freshly connected PgClient.     *)
(***************************************************************************)
EXTENDS Naturals, FiniteSets, Sequences

(* ------------------------------ bounds -------------------------------- *)
\* Connections the manager may open in one behaviour.
MaxClients == 2
\* Statements the backend may compile in one behaviour.
MaxStmt == 2
\* Transactions that may be begun on the Clients that are checked out,
\* counted until the Client they were begun on is returned.
MaxScopes == 2
\* Native operations that may be in flight on one connection at a time.
MaxFlight == 2
\* Size the pool was built with (Pool::new(mgr, size)).
PoolSize == 2

Clients == 1..MaxClients
ScopeIds == 1..MaxScopes
Queries == {"SELECT 1", "SELECT $1"}

\* Absence of a HashMap entry / of a returned Statement.
NoStmt == [res |-> 0, name |-> 0, query |-> ""]

VARIABLES
    where,   \* pool bookkeeping of each Client: absent, idle, out, discarded
    cache,   \* cache[c] : Client.statement_cache.map, query text -> Statement
    alive,   \* alive[c] : whether the backend connection of c still works
    scopes,  \* scopes[c] : the Transaction objects begun on c since it was
             \*   checked out, oldest first, each "open" (alive) or "gone"
             \*   (moved into commit or rollback, or dropped)
    nStmt,   \* statements the backend has compiled so far (names s1, s2, ...)
    flight,  \* flight[c] : the native operations called on c (through Deref)
             \*   whose futures have not completed, in the order called
    last     \* the operation performed last and what it returned

vars == <<where, cache, alive, scopes, nStmt, flight, last>>

(* --------------------------- StatementCache --------------------------- *)
\* StatementCache::new: an empty map.
StatementCache_new == [q \in Queries |-> NoStmt]

\* StatementCache::size: self.map.len().
size(m) == Cardinality({q \in Queries : m[q] # NoStmt})

clear_Keep(m) == m
\* StatementCache::clear: self.map.clear().
clear(m) == StatementCache_new

(* ------------------------------ backend ------------------------------- *)
\* tokio_postgres prepare on connection c: a Statement under the next
\* unused statement name, bound to the connection that compiled it.
compile(c, q) == [res |-> c, name |-> nStmt + 1, query |-> q]

\* The answers the backend can give on connection c: a dead connection
\* fails every request, a working one may still reject the request.
BackendAnswers(c) == IF alive[c] THEN BOOLEAN ELSE {FALSE}

(* ------------------------------- result ------------------------------- *)
\* What the caller of the last operation observed:
\*   op, c, i   the operation, its Client, and its Transaction (0: none)
\*   q          the query text of a prepare
\*   ok         whether it returned Ok
\*   compiled   whether the backend was asked to compile
\*   sent       how many requests the operation sent to the backend
\*   answer     whether the backend accepted the request (TRUE when none sent)
\*   stmt       the Statement returned
\*   before     the statement cache of c as it was before the operation
\*   was        for an operation on a Transaction, the state it was in
\* and what the caller still knows from the operation made just before:
\*   dropped    for a prepare, the map emptied by a clear() made on c just
\*              before
\*   rep        for a prepare, "ok" or "err" when the same call was made just
\*              before and returned Ok or an error; "parent" for a prepare
\*              through a Transaction begun right after the Client prepared
\*              the same text; "scope" for a prepare on the Client right
\*              after the end of a Transaction that had just prepared the
\*              same text; "" otherwise
\*              for a transaction(), "dropped" right after a Transaction of c
\*              was dropped, "failed" right after a transaction() on c that
\*              failed, "prepared" right after a prepare on c that returned Ok
\*   (q, stmt)  for a transaction(), those of the prepare made just before
\*              it, or just before the drop made just before it
\*   (q, stmt, compiled)  for commit, rollback and drop, those of a prepare
\*              made through the Transaction just before that returned Ok
NoOutcome ==
    [op |-> "none", c |-> 0, i |-> 0, q |-> "", ok |-> TRUE,
     compiled |-> FALSE, stmt |-> NoStmt, before |-> StatementCache_new,
     was |-> "", dropped |-> StatementCache_new, rep |-> "",
     sent |-> 0, answer |-> TRUE]

\* The outcome of an operation of the pool or of Client c itself.
Outcome(op, c, ok) ==
    [NoOutcome EXCEPT !.op = op, !.c = c, !.ok = ok, !.before = cache[c]]

\* The outcome of an operation that sent one request, which the backend
\* answered with backendOk.
Asked(o, backendOk) == [o EXCEPT !.sent = 1, !.answer = backendOk]

\* The outcome of prepare(q) on Client c, through the Client (i = 0) or its
\* Transaction i, r being what the call computed.
PrepareOutcome(op, c, i, q, r) ==
    [Outcome(op, c, r.ok) EXCEPT
       !.i = i, !.q = q, !.compiled = r.compiled, !.stmt = r.stmt,
       !.sent = IF r.compiled THEN 1 ELSE 0, !.answer = r.ok,
       !.was = IF i = 0 THEN "" ELSE scopes[c][i],
       !.dropped = IF last.op \in {"clear", "txn_clear"} /\ last.c = c
                   THEN last.before ELSE StatementCache_new,
       !.rep = IF last.op = op /\ last.c = c /\ last.i = i /\ last.q = q
               THEN (IF last.ok THEN "ok" ELSE "err")
               ELSE IF /\ op = "txn_prepare" /\ last.op = "transaction"
                       /\ last.c = c /\ last.ok
                       /\ last.rep = "prepared" /\ last.q = q
               THEN "parent"
               ELSE IF /\ op = "prepare" /\ last.c = c /\ last.q = q
                       /\ last.op \in {"commit", "rollback", "txn_drop"}
                       /\ last.stmt # NoStmt
               THEN "scope"
               ELSE ""]

\* The outcome of transaction() on Client c.
TransactionOutcome(c, ok) ==
    LET after == IF last.c # c THEN ""
                 ELSE IF last.op = "txn_drop" THEN "dropped"
                 ELSE IF last.op = "transaction" /\ ~last.ok THEN "failed"
                 ELSE IF last.op = "prepare" /\ last.ok THEN "prepared"
                 ELSE ""
    IN [Outcome("transaction", c, ok) EXCEPT
          !.rep = after,
          !.q = IF after \in {"dropped", "prepared"} THEN last.q ELSE "",
          !.stmt = IF after \in {"dropped", "prepared"} THEN last.stmt ELSE NoStmt]

\* The outcome of an operation other than prepare on Transaction i of c.
ScopeOutcome(op, c, i, ok) ==
    [Outcome(op, c, ok) EXCEPT !.i = i, !.was = scopes[c][i]]

\* The outcome of commit, rollback or drop of Transaction i of Client c.
EndOutcome(op, c, i, ok) ==
    [ScopeOutcome(op, c, i, ok) EXCEPT
       !.q = IF last.op = "txn_prepare" /\ last.c = c /\ last.i = i /\ last.ok
             THEN last.q ELSE "",
       !.stmt = IF last.op = "txn_prepare" /\ last.c = c /\ last.i = i /\ last.ok
                THEN last.stmt ELSE NoStmt,
       !.compiled = last.op = "txn_prepare" /\ last.c = c /\ last.i = i
                    /\ last.ok /\ last.compiled]

\* The Transactions begun on the checked-out Clients since they were handed
\* out.
ScopesBegun ==
    LET n[k \in 0..MaxClients] ==
          IF k = 0 THEN 0 ELSE n[k - 1] + Len(scopes[k])
    IN n[MaxClients]

(* Variants of the definitions below, each with one slip that the code does
   not make; a property that is about the code fails under its variant. *)
CacheOf_Shared(c) == 1
Client_prepare_NoInsert(m, c, q, backendOk) ==
    IF m[q] # NoStmt
    THEN [map |-> m, ok |-> TRUE, stmt |-> m[q], compiled |-> FALSE]
    ELSE IF backendOk
         THEN [map |-> m, ok |-> TRUE,
               stmt |-> compile(c, q), compiled |-> TRUE]
         ELSE [map |-> m, ok |-> FALSE, stmt |-> NoStmt, compiled |-> TRUE]
Client_prepare_EarlyInsert(m, c, q, backendOk) ==
    IF m[q] # NoStmt
    THEN [map |-> m, ok |-> TRUE, stmt |-> m[q], compiled |-> FALSE]
    ELSE IF backendOk
         THEN [map |-> [m EXCEPT ![q] = compile(c, q)], ok |-> TRUE,
               stmt |-> compile(c, q), compiled |-> TRUE]
         ELSE [map |-> [m EXCEPT ![q] = compile(c, q)], ok |-> FALSE,
               stmt |-> NoStmt, compiled |-> TRUE]
Transaction_prepare_NoInsert(m, c, q, backendOk) ==
    IF m[q] # NoStmt
    THEN [map |-> m, ok |-> TRUE, stmt |-> m[q], compiled |-> FALSE]
    ELSE IF backendOk
         THEN [map |-> m, ok |-> TRUE,
               stmt |-> compile(c, q), compiled |-> TRUE]
         ELSE [map |-> m, ok |-> FALSE, stmt |-> NoStmt, compiled |-> TRUE]
Transaction_prepare_AlwaysCompile(m, c, q, backendOk) ==
    IF backendOk
    THEN [map |-> [m EXCEPT ![q] = compile(c, q)], ok |-> TRUE,
          stmt |-> compile(c, q), compiled |-> TRUE]
    ELSE [map |-> m, ok |-> FALSE, stmt |-> NoStmt, compiled |-> TRUE]
insert_OtherKey(m, q, stmt) ==
    [m EXCEPT ![CHOOSE p \in Queries : p # q] = stmt]
insert_Evicting(m, q, stmt) ==
    [p \in Queries |-> IF p = q THEN stmt ELSE NoStmt]
Quiet_Always(c) == TRUE
Borrowed_Never(c) == FALSE
Usable_AfterMove(c, i) == i \in DOMAIN scopes[c]
recycle_ClearOnError(c) ==
    [ok |-> alive[c], sent |-> 1, answer |-> alive[c],
     map |-> IF alive[c] THEN cache[c] ELSE StatementCache_new]
lapin_recycle_Probe(c) == [ok |-> alive[c], sent |-> 1, answer |-> alive[c]]
recycle_Swallow(c) ==
    [ok |-> TRUE, map |-> cache[c], sent |-> 1, answer |-> alive[c]]
recycle_Fresh(c) ==
    [ok |-> alive[c], map |-> StatementCache_new, sent |-> 1, answer |-> alive[c]]

(* ------------------------------- Client ------------------------------- *)
\* Client::new: wraps the connection with a new, empty statement cache.
Client_new == StatementCache_new

\* The map a Client's prepare reads and writes: its own statement_cache.
CacheOf(c) == c

\* HashMap::insert of the statement compiled on a cache miss.
insert(m, q, stmt) == [m EXCEPT ![q] = stmt]

\* Client::prepare on map m of client c; backendOk is the backend's answer
\* to the compile request, consulted only on a miss.
Client_prepare(m, c, q, backendOk) ==
    IF m[q] # NoStmt
    THEN [map |-> m, ok |-> TRUE, stmt |-> m[q], compiled |-> FALSE]
    ELSE IF backendOk
         THEN [map |-> insert(m, q, compile(c, q)), ok |-> TRUE,
               stmt |-> compile(c, q), compiled |-> TRUE]
         ELSE [map |-> m, ok |-> FALSE, stmt |-> NoStmt, compiled |-> TRUE]

\* Transaction::prepare: the same lookup on the map the Transaction refers to,
\* compiling through the inner transaction of the same connection.
Transaction_prepare(m, c, q, backendOk) ==
    IF m[q] # NoStmt
    THEN [map |-> m, ok |-> TRUE, stmt |-> m[q], compiled |-> FALSE]
    ELSE IF backendOk
         THEN [map |-> insert(m, q, compile(c, q)), ok |-> TRUE,
               stmt |-> compile(c, q), compiled |-> TRUE]
         ELSE [map |-> m, ok |-> FALSE, stmt |-> NoStmt, compiled |-> TRUE]

\* Client::transaction takes &'a mut self and the Transaction<'a> keeps that
\* borrow: while one of its Transactions is alive the Client cannot be used.
Borrowed(c) == \E i \in DOMAIN scopes[c] : scopes[c][i] = "open"

\* prepare and transaction take &mut self, commit and rollback take self, and
\* clear takes &mut of the statement cache: none can be called while the
\* future of a native operation, which borrows the Client or the Transaction
\* through Deref, is still alive.
Quiet(c) == flight[c] = <<>>

\* commit(self) and rollback(self) take the Transaction by value: only a
\* Transaction that has not been moved out of can be operated on.
Usable(c, i) == i \in DOMAIN scopes[c] /\ scopes[c][i] = "open"

\* Transaction.statement_cache = &mut self.statement_cache of its Client.
ScopeCache(c) == CacheOf(c)

(* ------------------------------- Manager ------------------------------ *)
\* Manager::create: connect, then Client::new(client).
create(connected) == [ok |-> connected, map |-> Client_new]

\* Manager::recycle(&mut client): one simple_query("") on the connection,
\* which a working connection answers and a dead one fails; Ok exactly when
\* the query succeeds, its error otherwise; the Client is left as it is.
recycle(c) ==
    LET probe == alive[c] IN
    [ok |-> probe, map |-> cache[c], sent |-> 1, answer |-> probe]

(* -------------------------------- pool -------------------------------- *)
InPool(c) == where[c] \in {"idle", "out"}

\* A checkout that fills a free slot with a newly created Client.
CheckoutNew(c) ==
    /\ where[c] = "absent"
    /\ \A d \in Clients : d < c => where[d] # "absent"
    /\ Cardinality({d \in Clients : InPool(d)}) < PoolSize
    /\ \E connected \in BOOLEAN :
         LET r == create(connected) IN
         /\ where' = [where EXCEPT ![c] = IF r.ok THEN "out" ELSE "absent"]
         /\ cache' = [cache EXCEPT ![c] = r.map]
         /\ alive' = [alive EXCEPT ![c] = r.ok]
         /\ last' = Asked(Outcome("create", c, r.ok), connected)
    /\ UNCHANGED <<flight, scopes, nStmt>>

CheckoutIdle_KeepFailed(c) ==
    /\ where[c] = "idle"
    /\ LET r == recycle(c) IN
         /\ where' = [where EXCEPT ![c] = "out"]
         /\ cache' = [cache EXCEPT ![c] = r.map]
         /\ alive' = [alive EXCEPT ![c] = r.ok]
         /\ last' = [Outcome("recycle", c, r.ok) EXCEPT
                        !.sent = r.sent, !.answer = r.answer]
    /\ UNCHANGED <<flight, scopes, nStmt>>

\* A checkout that takes an idle Client: recycle is called on it first; on
\* success it is handed out, on failure it is discarded (dropped).
CheckoutIdle(c) ==
    /\ where[c] = "idle"
    /\ LET r == recycle(c) IN
         /\ where' = [where EXCEPT ![c] = IF r.ok THEN "out" ELSE "discarded"]
         /\ cache' = [cache EXCEPT ![c] = IF r.ok THEN r.map ELSE StatementCache_new]
         /\ alive' = [alive EXCEPT ![c] = r.ok]
         /\ last' = [Outcome("recycle", c, r.ok) EXCEPT
                        !.sent = r.sent, !.answer = r.answer]
    /\ UNCHANGED <<flight, scopes, nStmt>>

\* The caller drops the checked-out object: it goes back to the idle set.
\* Its Transactions, which borrow it, are all gone by then.
Return(c) ==
    /\ where[c] = "out"
    /\ Quiet(c)
    /\ ~Borrowed(c)
    /\ where' = [where EXCEPT ![c] = "idle"]
    /\ scopes' = [scopes EXCEPT ![c] = <<>>]
    /\ last' = Outcome("return", c, TRUE)
    /\ UNCHANGED <<flight, cache, alive, nStmt>>

\* The backend connection of a pooled Client breaks.  A break is recorded
\* while the Client sits idle, where only the next recycle can notice it: to
\* the caller of a checked-out Client a broken connection shows as requests
\* that fail, which BackendAnswers allows of every request anyway.
ConnectionDies(c) ==
    /\ where[c] = "idle"
    /\ alive[c]
    /\ alive' = [alive EXCEPT ![c] = FALSE]
    /\ UNCHANGED <<flight, where, cache, scopes, nStmt, last>>

(* --------------------------- Client operations ------------------------ *)
Prepare(c, q) ==
    /\ where[c] = "out"
    /\ Quiet(c)
    /\ ~Borrowed(c)
    /\ \E backendOk \in BackendAnswers(c) :
         LET r == Client_prepare(cache[CacheOf(c)], c, q, backendOk) IN
         /\ (r.compiled /\ r.ok) => nStmt < MaxStmt
         /\ cache' = [cache EXCEPT ![CacheOf(c)] = r.map]
         /\ nStmt' = IF r.compiled /\ r.ok THEN nStmt + 1 ELSE nStmt
         /\ last' = PrepareOutcome("prepare", c, 0, q, r)
    /\ UNCHANGED <<flight, where, alive, scopes>>

\* A native operation of the connection reached through Deref for Client
\* (client.query(..), client.execute(..), ...): it does not touch the cache.
Query(c) ==
    /\ where[c] = "out"
    /\ ~Borrowed(c)
    /\ \E backendOk \in BackendAnswers(c) :
         last' = Asked(Outcome("query", c, backendOk), backendOk)
    /\ UNCHANGED <<flight, where, cache, alive, scopes, nStmt>>

\* client.statement_cache.clear()
Clear(c) ==
    /\ where[c] = "out"
    /\ Quiet(c)
    /\ ~Borrowed(c)
    /\ cache' = [cache EXCEPT ![CacheOf(c)] = clear(cache[CacheOf(c)])]
    /\ last' = Outcome("clear", c, TRUE)
    /\ UNCHANGED <<flight, where, alive, scopes, nStmt>>

Transaction_ScopeOnError(c) ==
    /\ where[c] = "out"
    /\ Quiet(c)
    /\ ~Borrowed(c)
    /\ ScopesBegun < MaxScopes
    /\ \E backendOk \in BackendAnswers(c) :
         /\ scopes' = [scopes EXCEPT ![c] = Append(@, "open")]
         /\ last' = Asked(TransactionOutcome(c, backendOk), backendOk)
    /\ UNCHANGED <<flight, where, cache, alive, nStmt>>

\* Client::transaction: begin on the connection; on success a Transaction
\* that borrows the Client, on failure the error and no Transaction.
Transaction(c) ==
    /\ where[c] = "out"
    /\ Quiet(c)
    /\ ~Borrowed(c)
    /\ ScopesBegun < MaxScopes
    /\ \E backendOk \in BackendAnswers(c) :
         /\ scopes' = [scopes EXCEPT ![c] =
                          IF backendOk THEN Append(@, "open") ELSE @]
         /\ last' = Asked(TransactionOutcome(c, backendOk), backendOk)
    /\ UNCHANGED <<flight, where, cache, alive, nStmt>>

(* ------------------------ Transaction operations ---------------------- *)
TxnPrepare(c, i, q) ==
    /\ where[c] = "out"
    /\ Quiet(c)
    /\ Usable(c, i)
    /\ \E backendOk \in BackendAnswers(c) :
         LET r == Transaction_prepare(cache[ScopeCache(c)], c, q, backendOk) IN
         /\ (r.compiled /\ r.ok) => nStmt < MaxStmt
         /\ cache' = [cache EXCEPT ![ScopeCache(c)] = r.map]
         /\ nStmt' = IF r.compiled /\ r.ok THEN nStmt + 1 ELSE nStmt
         /\ last' = PrepareOutcome("txn_prepare", c, i, q, r)
    /\ UNCHANGED <<flight, where, alive, scopes>>

\* A native operation of the inner transaction reached through Deref for
\* Transaction.
TxnQuery(c, i) ==
    /\ where[c] = "out"
    /\ Usable(c, i)
    /\ \E backendOk \in BackendAnswers(c) :
         last' = Asked(ScopeOutcome("txn_query", c, i, backendOk), backendOk)
    /\ UNCHANGED <<flight, where, cache, alive, scopes, nStmt>>

\* transaction.statement_cache.clear()
TxnClear(c, i) ==
    /\ where[c] = "out"
    /\ Quiet(c)
    /\ Usable(c, i)
    /\ cache' = [cache EXCEPT ![ScopeCache(c)] = clear(cache[ScopeCache(c)])]
    /\ last' = ScopeOutcome("txn_clear", c, i, TRUE)
    /\ UNCHANGED <<flight, where, alive, scopes, nStmt>>

Commit_KeptOnError(c, i) ==
    /\ where[c] = "out"
    /\ Quiet(c)
    /\ Usable(c, i)
    /\ \E backendOk \in BackendAnswers(c) :
         /\ scopes' = [scopes EXCEPT ![c][i] = IF backendOk THEN "gone" ELSE @]
         /\ last' = Asked(EndOutcome("commit", c, i, backendOk), backendOk)
    /\ UNCHANGED <<flight, where, cache, alive, nStmt>>

\* Transaction::commit(self): self.txn.commit(); the Transaction is moved into
\* the call and gone after it, whatever the backend answers.
Commit(c, i) ==
    /\ where[c] = "out"
    /\ Quiet(c)
    /\ Usable(c, i)
    /\ \E backendOk \in BackendAnswers(c) :
         /\ scopes' = [scopes EXCEPT ![c][i] = "gone"]
         /\ last' = Asked(EndOutcome("commit", c, i, backendOk), backendOk)
    /\ UNCHANGED <<flight, where, cache, alive, nStmt>>

Rollback_DropsStatements(c, i) ==
    /\ where[c] = "out"
    /\ Quiet(c)
    /\ Usable(c, i)
    /\ \E backendOk \in BackendAnswers(c) :
         /\ scopes' = [scopes EXCEPT ![c][i] = "gone"]
         /\ last' = Asked(EndOutcome("rollback", c, i, backendOk), backendOk)
    /\ cache' = [cache EXCEPT ![ScopeCache(c)] = StatementCache_new]
    /\ UNCHANGED <<flight, where, alive, nStmt>>

\* Transaction::rollback(self): self.txn.rollback().
Rollback(c, i) ==
    /\ where[c] = "out"
    /\ Quiet(c)
    /\ Usable(c, i)
    /\ \E backendOk \in BackendAnswers(c) :
         /\ scopes' = [scopes EXCEPT ![c][i] = "gone"]
         /\ last' = Asked(EndOutcome("rollback", c, i, backendOk), backendOk)
    /\ UNCHANGED <<flight, where, cache, alive, nStmt>>

TxnDrop_KeepsBorrow(c, i) ==
    /\ where[c] = "out"
    /\ Quiet(c)
    /\ Usable(c, i)
    /\ last' = EndOutcome("txn_drop", c, i, TRUE)
    /\ UNCHANGED <<flight, where, cache, alive, scopes, nStmt>>

\* The Transaction goes out of scope without commit or rollback.
TxnDrop(c, i) ==
    /\ where[c] = "out"
    /\ Quiet(c)
    /\ Usable(c, i)
    /\ scopes' = [scopes EXCEPT ![c][i] = "gone"]
    /\ last' = EndOutcome("txn_drop", c, i, TRUE)
    /\ UNCHANGED <<flight, where, cache, alive, nStmt>>

Init ==
    /\ where = [c \in Clients |-> "absent"]
    /\ cache = [c \in Clients |-> StatementCache_new]
    /\ alive = [c \in Clients |-> FALSE]
    /\ scopes = [c \in Clients |-> <<>>]
    /\ nStmt = 0
    /\ flight = [c \in Clients |-> <<>>]
    /\ last = NoOutcome

Next ==
    \/ \E c \in Clients : CheckoutNew(c)
    \/ \E c \in Clients : CheckoutIdle(c)
    \/ \E c \in Clients : Return(c)
    \/ \E c \in Clients : ConnectionDies(c)
    \/ \E c \in Clients, q \in Queries : Prepare(c, q)
    \/ \E c \in Clients : Query(c)
    \/ \E c \in Clients : Clear(c)
    \/ \E c \in Clients : Transaction(c)
    \/ \E c \in Clients, i \in ScopeIds, q \in Queries : TxnPrepare(c, i, q)
    \/ \E c \in Clients, i \in ScopeIds : TxnQuery(c, i)
    \/ \E c \in Clients, i \in ScopeIds : TxnClear(c, i)
    \/ \E c \in Clients, i \in ScopeIds : Commit(c, i)
    \/ \E c \in Clients, i \in ScopeIds : Rollback(c, i)
    \/ \E c \in Clients, i \in ScopeIds : TxnDrop(c, i)

Spec == Init /\ [][Next]_vars

(* ---------------- native operations in flight (postgres) --------------- *)
(* In Spec every operation runs from call to completion in one step.  That  *)
(* is what &mut self and self force for prepare, transaction, commit and    *)
(* rollback.  The native operations are reached through Deref, that is      *)
(* through a shared reference: their futures can be alive together.  Below, *)
(* one checked-out Client is followed with the native operations split into *)
(* call and completion.                                                     *)

\* A native operation of the connection is called through Deref for Client
\* and its future polled: the request is on its way.
QueryStart(c) ==
    /\ where[c] = "out"
    /\ ~Borrowed(c)
    /\ Len(flight[c]) < MaxFlight
    /\ flight' = [flight EXCEPT ![c] = Append(@, "query")]
    /\ last' = Outcome("query_start", c, TRUE)
    /\ UNCHANGED <<where, cache, alive, scopes, nStmt>>

\* The sequence s without its k-th element.
Without(s, k) == SubSeq(s, 1, k - 1) \o SubSeq(s, k + 1, Len(s))

\* One of the native operations in flight on the Client completes.
QueryFinish(c, k) ==
    /\ k \in DOMAIN flight[c]
    /\ flight[c][k] = "query"
    /\ flight' = [flight EXCEPT ![c] = Without(@, k)]
    /\ \E backendOk \in BackendAnswers(c) :
         last' = Asked(Outcome("query", c, backendOk), backendOk)
    /\ UNCHANGED <<where, cache, alive, scopes, nStmt>>

\* A native operation of the inner transaction is called through Deref for
\* Transaction.
TxnQueryStart(c, i) ==
    /\ where[c] = "out"
    /\ Usable(c, i)
    /\ Len(flight[c]) < MaxFlight
    /\ flight' = [flight EXCEPT ![c] = Append(@, "txn_query")]
    /\ last' = ScopeOutcome("txn_query_start", c, i, TRUE)
    /\ UNCHANGED <<where, cache, alive, scopes, nStmt>>

\* One of the native operations in flight on the Transaction completes.
TxnQueryFinish(c, i, k) ==
    /\ Usable(c, i)
    /\ k \in DOMAIN flight[c]
    /\ flight[c][k] = "txn_query"
    /\ flight' = [flight EXCEPT ![c] = Without(@, k)]
    /\ \E backendOk \in BackendAnswers(c) :
         last' = Asked(ScopeOutcome("txn_query", c, i, backendOk), backendOk)
    /\ UNCHANGED <<where, cache, alive, scopes, nStmt>>

\* Client 1 has just been created and handed out.
OrderInit ==
    /\ where = [c \in Clients |-> IF c = 1 THEN "out" ELSE "absent"]
    /\ cache = [c \in Clients |-> StatementCache_new]
    /\ alive = [c \in Clients |-> c = 1]
    /\ scopes = [c \in Clients |-> <<>>]
    /\ nStmt = 0
    /\ flight = [c \in Clients |-> <<>>]
    /\ last = Asked([NoOutcome EXCEPT !.op = "create", !.c = 1], TRUE)

OrderNext ==
    \/ \E c \in Clients, q \in Queries : Prepare(c, q)
    \/ \E c \in Clients : Clear(c)
    \/ \E c \in Clients : Transaction(c)
    \/ \E c \in Clients, i \in ScopeIds, q \in Queries : TxnPrepare(c, i, q)
    \/ \E c \in Clients, i \in ScopeIds : TxnClear(c, i)
    \/ \E c \in Clients, i \in ScopeIds : Commit(c, i)
    \/ \E c \in Clients, i \in ScopeIds : Rollback(c, i)
    \/ \E c \in Clients, i \in ScopeIds : TxnDrop(c, i)
    \/ \E c \in Clients : QueryStart(c)
    \/ \E c \in Clients, k \in 1..MaxFlight : QueryFinish(c, k)
    \/ \E c \in Clients, i \in ScopeIds : TxnQueryStart(c, i)
    \/ \E c \in Clients, i \in ScopeIds, k \in 1..MaxFlight :
          TxnQueryFinish(c, i, k)

OrderSpec == OrderInit /\ [][OrderNext]_vars

(* ------------------------- the lapin Manager --------------------------- *)
\* Manager::create of deadpool-lapin: lapin::Connection::connect.
lapin_create(connected) == [ok |-> connected]

\* Manager::recycle of deadpool-lapin: Ok(()) without a look at the
\* connection.
lapin_recycle(c) == [ok |-> TRUE, sent |-> 0, answer |-> TRUE]

\* A checkout that fills a free slot with a newly opened connection.
LapinCheckoutNew(c) ==
    /\ where[c] = "absent"
    /\ \A d \in Clients : d < c => where[d] # "absent"
    /\ Cardinality({d \in Clients : InPool(d)}) < PoolSize
    /\ \E connected \in BOOLEAN :
         LET r == lapin_create(connected) IN
         /\ where' = [where EXCEPT ![c] = IF r.ok THEN "out" ELSE "absent"]
         /\ alive' = [alive EXCEPT ![c] = r.ok]
         /\ last' = Asked(Outcome("create", c, r.ok), connected)
    /\ UNCHANGED <<cache, scopes, nStmt, flight>>

\* A checkout that takes an idle connection: recycle is called on it first;
\* on success it is handed out, on failure it is discarded.
LapinCheckoutIdle(c) ==
    /\ where[c] = "idle"
    /\ LET r == lapin_recycle(c) IN
         /\ where' = [where EXCEPT ![c] = IF r.ok THEN "out" ELSE "discarded"]
         /\ last' = [Outcome("recycle", c, r.ok) EXCEPT
                        !.sent = r.sent, !.answer = r.answer]
    /\ UNCHANGED <<cache, alive, scopes, nStmt, flight>>

\* The connection of a pooled lapin::Connection breaks, idle or handed out.
LapinConnectionDies(c) ==
    /\ InPool(c)
    /\ alive[c]
    /\ alive' = [alive EXCEPT ![c] = FALSE]
    /\ UNCHANGED <<where, cache, scopes, nStmt, flight, last>>

\* The caller opens a channel on the connection it was handed.
LapinCreateChannel(c) ==
    /\ where[c] = "out"
    /\ \E backendOk \in BackendAnswers(c) :
         last' = Asked(Outcome("create_channel", c, backendOk), backendOk)
    /\ UNCHANGED <<where, cache, alive, scopes, nStmt, flight>>

\* The caller publishes on the channel it has just opened or published on.
LapinPublish(c) ==
    /\ where[c] = "out"
    /\ last.c = c /\ last.ok
    /\ last.op \in {"create_channel", "basic_publish"}
    /\ \E backendOk \in BackendAnswers(c) :
         last' = Asked(Outcome("basic_publish", c, backendOk), backendOk)
    /\ UNCHANGED <<where, cache, alive, scopes, nStmt, flight>>

LapinNext ==
    \/ \E c \in Clients : LapinCheckoutNew(c)
    \/ \E c \in Clients : LapinCheckoutIdle(c)
    \/ \E c \in Clients : Return(c)
    \/ \E c \in Clients : LapinConnectionDies(c)
    \/ \E c \in Clients : LapinCreateChannel(c)
    \/ \E c \in Clients : LapinPublish(c)

LapinSpec == Init /\ [][LapinNext]_vars

(* ======================================================================= *)
(*                               Properties                                *)
(* ======================================================================= *)
\* The Transactions of c that are alive.
OpenScopes(c) == {i \in DOMAIN scopes[c] : scopes[c][i] = "open"}

PrepareOps == {"prepare", "txn_prepare"}
ClearOps == {"clear", "txn_clear"}
EndOps == {"commit", "rollback", "txn_drop"}
ScopeOps == {"txn_prepare", "txn_query", "txn_clear"} \cup EndOps

\* prepare(q) on Client c in its present state is a cache hit that returns
\* stmt, whatever the backend would answer.
HitsWith(c, q, stmt) ==
    \A b \in BOOLEAN :
      /\ ~Client_prepare(cache[c], c, q, b).compiled
      /\ Client_prepare(cache[c], c, q, b).ok
      /\ Client_prepare(cache[c], c, q, b).stmt = stmt

\* C1 as stated: Client::prepare(q) grows the cache by at most one entry, and
\* by none when the operation before it was prepare(q) on the same Client
\* (whether or not that first call returned a statement).
C1_TwicePrepareSize ==
    last.op = "prepare" =>
      /\ size(cache[last.c]) \in {size(last.before), size(last.before) + 1}
      /\ last.rep # "" => size(cache[last.c]) = size(last.before)

\* C1 amended: Client::prepare(q) grows the cache by at most one entry; when
\* the operation before it was a prepare(q) on the same Client that returned a
\* statement, the call is a cache hit: the backend is not asked, the cached
\* statement is returned and the cache, hence its size, is unchanged.
C1_TwicePrepareHit ==
    last.op = "prepare" =>
      /\ size(cache[last.c]) \in {size(last.before), size(last.before) + 1}
      /\ last.rep = "ok" =>
           /\ cache[last.c] = last.before
           /\ size(cache[last.c]) = size(last.before)
           /\ ~last.compiled
           /\ last.ok /\ last.stmt = cache[last.c][last.q]

\* The second of two prepare calls of one text: it hit the entry the first
\* had left.
C1_Witness ==
    /\ last.op = "prepare" /\ last.rep = "ok"
    /\ last.ok /\ ~last.compiled
    /\ cache[last.c][last.q] = last.stmt

C3_ScopePrepareThenCommit ==
    (last.op = "commit" /\ last.stmt # NoStmt) =>
      /\ cache[last.c][last.q] = last.stmt
      /\ OpenScopes(last.c) = {}
      /\ HitsWith(last.c, last.q, last.stmt)

\* A commit that followed a prepare, through the Transaction, of a text that
\* was not cached before; the Client holds the statement that prepare returned.
C3_Witness ==
    /\ last.op = "commit" /\ last.ok
    /\ last.stmt # NoStmt /\ last.compiled
    /\ cache[last.c][last.q] = last.stmt

\* C4: Transaction::rollback leaves the statement cache of its Client as it
\* was, whether the backend accepts the rollback or not; in particular a
\* statement prepared through the Transaction just before is still cached.
C4_RollbackKeepsCache ==
    last.op = "rollback" =>
      /\ cache[last.c] = last.before
      /\ last.stmt # NoStmt => cache[last.c][last.q] = last.stmt

\* A rollback that followed prepare("SELECT $1") through the Transaction,
\* after which the Client holds the statement that prepare returned.
C4_Witness ==
    /\ last.op = "rollback"
    /\ OpenScopes(last.c) = {}
    /\ last.q = "SELECT $1" /\ last.stmt # NoStmt
    /\ cache[last.c]["SELECT $1"] = last.stmt

\* C5: a Transaction that was moved into commit or rollback (or dropped) is
\* gone for as long as its Client is checked out; commit, rollback and drop
\* always leave it gone; and every prepare, clear, native operation, commit,
\* rollback or drop is performed on a Transaction that was open, never on one
\* that is gone.
C5_ScopeTerminal ==
    [][/\ \A c \in Clients, i \in ScopeIds :
            (i \in DOMAIN scopes[c] /\ scopes[c][i] = "gone" /\ where'[c] = "out")
              => (i \in DOMAIN scopes'[c] /\ scopes'[c][i] = "gone")
       /\ last'.op \in ScopeOps => last'.was = "open"
       /\ last'.op \in EndOps => scopes'[last'.c][last'.i] = "gone"]_vars

\* A Transaction was committed and the Client has gone on to other work.
C5_Witness ==
    \E c \in Clients :
      /\ Len(scopes[c]) = 2
      /\ scopes[c][1] = "gone" /\ scopes[c][2] = "open"
      /\ last.op = "txn_prepare" /\ last.c = c /\ last.i = 2

\* C6: a Client never has two Transactions alive, and whenever prepare, clear,
\* a native operation or a failed transaction() has been performed on the
\* Client itself, or it was returned to the pool, it has no Transaction alive.
C6_ExclusiveBorrow ==
    /\ \A c \in Clients : Cardinality(OpenScopes(c)) <= 1
    /\ last.op \in {"prepare", "clear", "query", "return"}
         => OpenScopes(last.c) = {}
    /\ (last.op = "transaction" /\ ~last.ok) => OpenScopes(last.c) = {}

\* A Transaction is alive and was used to prepare a statement.
C6_Witness ==
    /\ last.op = "txn_prepare" /\ last.ok /\ last.compiled
    /\ OpenScopes(last.c) = {last.i}

\* C7: a prepare, on a Client or on a Transaction, that returns an error
\* returns no statement and leaves the statement cache exactly as it was.
C7_FailedPrepareKeepsCache ==
    (last.op \in PrepareOps /\ ~last.ok) =>
      /\ last.stmt = NoStmt
      /\ cache[last.c] = last.before
      /\ cache[last.c][last.q] = NoStmt

\* A failed prepare on a Client whose cache holds another statement.
C7_Witness ==
    /\ last.op \in PrepareOps /\ ~last.ok /\ last.compiled
    /\ cache[last.c][last.q] = NoStmt
    /\ size(cache[last.c]) = 1

\* C8: right after clear() the cache has size 0, and a prepare(q) that
\* follows the clear on the same Client, for a q that was cached before it,
\* asks the backend to compile and, when that succeeds, stores and returns the
\* newly compiled statement, which differs from the one cached before the
\* clear.
C8_ClearThenPrepare ==
    /\ last.op \in ClearOps => size(cache[last.c]) = 0
    /\ (last.op \in PrepareOps /\ last.dropped[last.q] # NoStmt) =>
         /\ last.compiled
         /\ last.ok => /\ last.stmt # last.dropped[last.q]
                       /\ cache[last.c][last.q] = last.stmt

\* A prepare right after a clear, of a text the clear had dropped, that
\* compiled a new statement.
C8_Witness ==
    /\ last.op = "prepare" /\ last.ok /\ last.compiled
    /\ last.dropped[last.q] # NoStmt
    /\ last.stmt # last.dropped[last.q]
    /\ cache[last.c][last.q] = last.stmt

\* C9: a Client whose recycle failed is discarded by that checkout, and a
\* discarded Client is never in the pool again, neither idle nor handed out.
C9_FailedRecycleDiscarded ==
    [][/\ \A c \in Clients : where[c] = "discarded" => where'[c] = "discarded"
       /\ (last'.op = "recycle" /\ ~last'.ok)
             => where'[last'.c] = "discarded"]_vars

\* After a discard, a checkout is served by a newly created Client.
C9_Witness ==
    /\ last.op = "create" /\ last.ok
    /\ where[last.c] = "out"
    /\ \E c \in Clients : where[c] = "discarded"

\* C10: every statement in a Client's cache was compiled on that Client's own
\* connection for the text it is stored under, every statement a prepare
\* returns was compiled on the connection of the Client it was called on, and
\* no statement is in the caches of two Clients.
C10_HandlesBelongToOwner ==
    /\ \A c \in Clients, q \in Queries :
         cache[c][q] # NoStmt => (cache[c][q].res = c /\ cache[c][q].query = q)
    /\ (last.op \in PrepareOps /\ last.ok) => last.stmt.res = last.c
    /\ \A c, d \in Clients, q, p \in Queries :
         (c # d /\ cache[c][q] # NoStmt) => cache[c][q] # cache[d][p]

\* Two Clients each hold a statement for the same text.
C10_Witness ==
    \E q \in Queries : cache[1][q] # NoStmt /\ cache[2][q] # NoStmt

\* C11: when the backend rejects commit, the caller gets the error, the one
\* commit request sent is not followed by another, and the Transaction is
\* gone all the same: the Client has no Transaction alive, is checked out and
\* not borrowed, so it can be used again, and its cache is as it was.
C11_FailedCommitTerminates ==
    (last.op = "commit" /\ ~last.answer) =>
      /\ ~last.ok
      /\ last.sent = 1
      /\ last.was = "open" /\ scopes[last.c][last.i] = "gone"
      /\ OpenScopes(last.c) = {}
      /\ where[last.c] = "out" /\ ~Borrowed(last.c)
      /\ cache[last.c] = last.before

\* A commit the backend rejected, made after a prepare through the
\* Transaction whose statement the Client still holds.
C11_Witness ==
    /\ last.op = "commit" /\ ~last.ok /\ ~last.answer
    /\ scopes[last.c][last.i] = "gone"
    /\ last.stmt # NoStmt /\ cache[last.c][last.q] = last.stmt

\* C12: Manager::recycle of the postgres adapter sends exactly one probe
\* query and returns Ok exactly when the backend answered it; a Client whose
\* probe failed is reported as failed and one whose probe succeeded is handed
\* out.
C12_RecycleIsOneProbe ==
    /\ last.op = "recycle" =>
         /\ last.sent = 1
         /\ last.ok <=> last.answer
         /\ last.ok <=> where[last.c] = "out"
    /\ \A c \in Clients :
         /\ recycle(c).sent = 1
         /\ recycle(c).ok <=> recycle(c).answer

\* A recycle whose probe failed on a connection that had died while idle.
C12_Witness ==
    /\ last.op = "recycle" /\ last.sent = 1
    /\ ~last.answer /\ ~last.ok
    /\ where[last.c] = "discarded"

\* C13: in every state, prepare through a Transaction of a Client computes
\* what prepare on the Client itself would compute: the same result, the same
\* statement and the same map; a text the Client prepared just before the
\* Transaction was begun is a hit inside it, and a text prepared inside a
\* Transaction is a hit on the Client right after the Transaction ended: no
\* request is sent, the cached statement is returned, the cache is unchanged.
C13_ScopePrepareIsClientPrepare ==
    /\ \A c \in Clients, q \in Queries, b \in BOOLEAN :
         Transaction_prepare(cache[ScopeCache(c)], c, q, b)
           = Client_prepare(cache[CacheOf(c)], c, q, b)
    /\ (last.op \in PrepareOps /\ last.rep \in {"parent", "scope"}) =>
         /\ last.ok /\ ~last.compiled /\ last.sent = 0
         /\ last.stmt # NoStmt /\ last.stmt = last.before[last.q]
         /\ cache[last.c] = last.before

\* A prepare through a Transaction, of a text the Client had prepared just
\* before the Transaction was begun, that was a hit.
C13_Witness ==
    /\ last.op = "txn_prepare" /\ last.rep = "parent"
    /\ last.ok /\ ~last.compiled
    /\ OpenScopes(last.c) = {last.i}
    /\ cache[last.c][last.q] = last.stmt

\* C14: a prepare sends at most one compile request.  When the text was
\* cached, it sends none, returns the stored statement and leaves the cache
\* as it was.  When it was not, it sends exactly one, returns Ok exactly when
\* the backend accepted it, and then returns the compiled statement, which is
\* for the text asked for, having stored it under that text and changed no
\* other entry.
C14_PrepareCompilesAtMostOnce ==
    last.op \in PrepareOps =>
      /\ last.sent \in {0, 1}
      /\ last.compiled <=> last.sent = 1
      /\ last.before[last.q] # NoStmt =>
           /\ last.sent = 0 /\ last.ok
           /\ last.stmt = last.before[last.q]
           /\ cache[last.c] = last.before
      /\ last.before[last.q] = NoStmt =>
           /\ last.sent = 1
           /\ last.ok <=> last.answer
           /\ last.ok => /\ last.stmt # NoStmt
                          /\ last.stmt.query = last.q
                          /\ cache[last.c] = [last.before EXCEPT ![last.q] = last.stmt]

\* A prepare of a text that was not cached: one compile request, accepted,
\* whose statement is stored under the text and returned.
C14_Witness ==
    /\ last.op \in PrepareOps /\ last.before[last.q] = NoStmt
    /\ last.sent = 1 /\ last.ok
    /\ last.stmt.query = last.q
    /\ cache[last.c] = [last.before EXCEPT ![last.q] = last.stmt]

\* The operations that are not clear(): those of a Client and of its
\* Transactions, and the return to the pool.
KeepOps ==
    {"prepare", "query", "transaction", "txn_prepare", "txn_query",
     "commit", "rollback", "txn_drop", "return"}

\* C15: an operation other than clear() removes and replaces no entry of the
\* cache of its Client: every text cached before it is cached after it with
\* the same statement, and size() has not decreased.
C15_CacheOnlyGrows ==
    last.op \in KeepOps =>
      /\ \A q \in Queries :
           last.before[q] # NoStmt => cache[last.c][q] = last.before[q]
      /\ size(cache[last.c]) >= size(last.before)

\* A prepare that added a second entry to the cache and kept the first.
C15_Witness ==
    /\ last.op \in PrepareOps /\ last.ok /\ last.compiled
    /\ size(last.before) = 1 /\ size(cache[last.c]) = 2
    /\ \E q \in Queries :
         last.before[q] # NoStmt /\ cache[last.c][q] = last.before[q]

\* C17: dropping a Transaction without commit or rollback ends its borrow:
\* the Transaction is gone, the Client has no Transaction alive and is
\* checked out and not borrowed, so prepare and transaction() can be called
\* on it; its cache is as it was, so a statement prepared through the dropped
\* Transaction is still cached; and a transaction() that follows the drop and
\* succeeds yields a new Transaction, alive, with that statement still cached.
C17_DropEndsBorrow ==
    /\ last.op = "txn_drop" =>
         /\ last.was = "open" /\ scopes[last.c][last.i] = "gone"
         /\ OpenScopes(last.c) = {}
         /\ where[last.c] = "out" /\ ~Borrowed(last.c)
         /\ cache[last.c] = last.before
         /\ last.stmt # NoStmt => cache[last.c][last.q] = last.stmt
    /\ (last.op = "transaction" /\ last.rep = "dropped" /\ last.ok) =>
         /\ OpenScopes(last.c) = {Len(scopes[last.c])}
         /\ Len(scopes[last.c]) >= 2
         /\ scopes[last.c][Len(scopes[last.c]) - 1] = "gone"
         /\ last.stmt # NoStmt => cache[last.c][last.q] = last.stmt

\* A Transaction begun right after one was dropped in which a statement had
\* been prepared; the Client still holds that statement.
C17_Witness ==
    /\ last.op = "transaction" /\ last.rep = "dropped" /\ last.ok
    /\ OpenScopes(last.c) = {Len(scopes[last.c])}
    /\ last.stmt # NoStmt /\ cache[last.c][last.q] = last.stmt

\* C20: when the backend refuses to begin the transaction, transaction()
\* returns the error, the Client has no Transaction alive, its cache is as it
\* was, and it is checked out and not borrowed, so prepare and transaction()
\* can be called on it at once; a transaction() called right after the
\* failed one that succeeds yields a Transaction.
C20_FailedBeginLeavesNoScope ==
    /\ (last.op = "transaction" /\ ~last.answer) =>
         /\ ~last.ok /\ last.sent = 1
         /\ OpenScopes(last.c) = {}
         /\ cache[last.c] = last.before
         /\ where[last.c] = "out" /\ ~Borrowed(last.c)
    /\ (last.op = "transaction" /\ last.rep = "failed" /\ last.ok) =>
         OpenScopes(last.c) = {Len(scopes[last.c])}

\* A transaction() that succeeded right after one that had failed on the
\* same Client, whose cache holds a statement.
C20_Witness ==
    /\ last.op = "transaction" /\ last.rep = "failed" /\ last.ok
    /\ scopes[last.c] = <<"open">>
    /\ size(cache[last.c]) >= 1

\* The operations that take the Client, the Transaction or the statement
\* cache exclusively or by value.
ExclusiveOps ==
    {"prepare", "clear", "transaction", "txn_prepare", "txn_clear",
     "commit", "rollback", "txn_drop"}

\* C16 as stated: no two operations on the same connection are in flight at
\* once.
C16_OneInFlight ==
    \A c \in Clients : Len(flight[c]) <= 1

\* C16 amended: prepare, transaction, commit, rollback (and clear and drop)
\* run alone: when one has completed, no operation called before it on the
\* same connection is still in flight, and none was started during it.  Only
\* native operations, which borrow the Client or the Transaction through
\* Deref, are ever in flight, all of them through the one handle that is
\* usable, the open Transaction or else the Client; there can be several.
C16_ExclusiveOpsRunAlone ==
    /\ last.op \in ExclusiveOps => flight[last.c] = <<>>
    /\ \A c \in Clients :
         /\ flight[c] # <<>> => where[c] = "out"
         /\ \A k \in DOMAIN flight[c] :
              flight[c][k] = IF Borrowed(c) THEN "txn_query" ELSE "query"

\* A native operation has completed while another one, called on the same
\* Client, is still in flight, after the Client had prepared a statement.
C16_Witness ==
    /\ last.op = "query" /\ last.ok
    /\ Len(flight[last.c]) >= 1
    /\ size(cache[last.c]) >= 1

\* C18: Manager::recycle of the lapin adapter returns Ok for every
\* connection, dead or alive, and sends nothing; so a checkout that reuses an
\* idle connection always hands it out, no connection is ever discarded, and
\* a connection that has died is handed out like any other.
C18_LapinRecycleAlwaysOk ==
    /\ \A c \in Clients :
         /\ lapin_recycle(c).ok /\ lapin_recycle(c).sent = 0
         /\ where[c] # "discarded"
    /\ last.op = "recycle" =>
         /\ last.ok /\ last.sent = 0
         /\ where[last.c] = "out"

\* A connection that died was recycled and handed out.
C18_Witness ==
    /\ last.op = "recycle" /\ last.ok
    /\ ~alive[last.c]
    /\ where[last.c] = "out"

\* C19: Manager::recycle of the postgres adapter gives back the statement
\* cache of the Client as it found it, whether its probe succeeds or fails;
\* and the cache of a Client does not change from the moment it is returned
\* to the pool until it is handed out again, so a reused Client has exactly
\* the entries it was returned with.
C19_RecycleKeepsCache ==
    [][\A c \in Clients :
         where[c] = "idle" =>
           /\ recycle(c).map = cache[c]
           /\ where'[c] \in {"idle", "out"} => cache'[c] = cache[c]
           /\ where'[c] = "out" =>
                (last'.op = "recycle" /\ last'.c = c /\ last'.before = cache[c])]_vars

\* A Client handed out again with the two statements it was returned with.
C19_Witness ==
    /\ last.op = "recycle" /\ last.ok
    /\ where[last.c] = "out"
    /\ size(last.before) = 2
    /\ cache[last.c] = last.before
====
